---------------------------- MODULE Spec2Model ----------------------------
(***************************************************************************)
(* A model of fixpng.c: main -> check_png_header -> read_chunks ->         *)
(* process_chunks -> write_png.                                            *)
(*                                                                         *)
(* Bytes are naturals in 0..255, buffers are sequences of bytes, and the   *)
(* 32-bit fields are their four base-256 digits.  The input file is a byte *)
(* sequence; read_chunks parses it at the byte level and write_png emits   *)
(* bytes, so that the big-endian framing is part of what is checked.       *)
(*                                                                         *)
(* zlib is modelled by a small block codec with deflate's structure: a raw *)
(* stream is a sequence of blocks, each starting with a header byte        *)
(* 2*BTYPE + BFINAL; BTYPE 0 is a stored block (length, literals), BTYPE 1 *)
(* a compressed block (here: a run, length and value), any other BTYPE is  *)
(* invalid (Z_DATA_ERROR).  A zlib stream is the two header bytes 78 9C, a *)
(* raw stream and the big-endian Adler-32 of the plain bytes.              *)
(*                                                                         *)
(* Environment assumptions: the input file was read (g_file_get_contents   *)
(* succeeded), and open() and every write() on the output succeed and      *)
(* write all their bytes.                                                  *)
(***************************************************************************)
EXTENDS Integers, Sequences, FiniteSets, TLC

(***************************************************************************)
(* Program constants.  MAX_CHUNKS (20) and BUFSIZE (1048576) are scaled    *)
(* down so that inputs reaching them can be enumerated; the code uses them *)
(* only in the comparisons modelled below.                                 *)
(***************************************************************************)
MAX_CHUNKS == 2
BUFSIZE == 12

pngheader == <<137, 80, 78, 71, 13, 10, 26, 10>>
datachunk == <<73, 68, 65, 84>>
endchunk == <<73, 69, 78, 68>>
cgbichunk == <<67, 103, 66, 73>>
\* A tag the program gives no meaning to (any chunk that is passed through).
otherchunk == <<73, 72, 68, 82>>

\* The longest input, in chunk records.
MaxRecs == 3

(***************************************************************************)
(* Sequences of bytes.                                                     *)
(***************************************************************************)
Min(a, b) == IF a < b THEN a ELSE b

Take(s, n) == SubSeq(s, 1, Min(n, Len(s)))

Drop(s, n) == SubSeq(s, n + 1, Len(s))

Repeat(v, n) == [k \in 1..n |-> v]

Reverse(s) == [k \in 1..Len(s) |-> s[Len(s) + 1 - k]]

(***************************************************************************)
(* 32-bit values.  A guint32 is kept as its four base-256 digits, most     *)
(* significant first, so that every 32-bit value has its full width.       *)
(***************************************************************************)
\* The guint32 of a natural below 2^31.
U32Of(n) == <<n \div 16777216, (n \div 65536) % 256, (n \div 256) % 256, n % 256>>

\* A value too large to be the size of anything the model holds.
IsHuge(v) == v[1] # 0 \/ v[2] # 0

\* The natural of a guint32 below 2^16.
NatOf(v) == v[3] * 256 + v[4]

\* The value of a guint32 whose object representation is the bytes b.
LoadU32(b, little) == IF little THEN Reverse(b) ELSE b

\* The object representation of the guint32 v.
StoreU32(v, little) == IF little THEN Reverse(v) ELSE v

\* <arpa/inet.h>: the identity on a big-endian host, a byte swap otherwise.
ntohl(v, little) == IF little THEN Reverse(v) ELSE v

htonl(v, little) == IF little THEN Reverse(v) ELSE v

(***************************************************************************)
(* zlib's crc32(): the CRC-32 of ISO 3309 (reflected polynomial EDB88320), *)
(* bit by bit, on a register kept as two 16-bit halves <<high, low>>.      *)
(* crc32(crc, buf) continues the running checksum crc over buf.            *)
(***************************************************************************)
RECURSIVE BitXor(_, _)
BitXor(a, b) ==
    IF a = 0 THEN b
    ELSE IF b = 0 THEN a
    ELSE ((a + b) % 2) + 2 * BitXor(a \div 2, b \div 2)

\* The polynomial EDB88320 as two 16-bit halves.
CrcPoly == <<60856, 33568>>

\* k times: shift the register right by one bit and, when the bit shifted
\* out is set, xor the polynomial into it.
RECURSIVE CrcShift(_, _)
CrcShift(c, k) ==
    IF k = 0 THEN c
    ELSE IF c[2] % 2 = 1
    THEN CrcShift(<<BitXor(c[1] \div 2, CrcPoly[1]),
                    BitXor((c[2] \div 2) + (c[1] % 2) * 32768, CrcPoly[2])>>, k - 1)
    ELSE CrcShift(<<c[1] \div 2, (c[2] \div 2) + (c[1] % 2) * 32768>>, k - 1)

\* zlib's crc_table: the register after the eight shifts of one byte.
crc_table == [n \in 0..255 |-> CrcShift(<<0, n>>, 8)] @@ <<>>

\* One byte through the register, by the table.
CrcByte(c, byte) ==
    LET t == crc_table[BitXor(c[2] % 256, byte)]
    IN  <<BitXor(t[1], c[1] \div 256),
          BitXor(t[2], (c[2] \div 256) + (c[1] % 256) * 256)>>

\* The bytes of buf from the k-th on through the register.  (A register is
\* never empty: the test makes TLC evaluate it at every byte instead of as
\* one nested expression after the last.)
RECURSIVE CrcBytes(_, _, _)
CrcBytes(c, buf, k) ==
    IF k > Len(buf) \/ c = <<>> THEN c
    ELSE CrcBytes(CrcByte(c, buf[k]), buf, k + 1)

crc32(crc, buf) ==
    LET c == CrcBytes(<<65535 - (crc[1] * 256 + crc[2]), 65535 - (crc[3] * 256 + crc[4])>>, buf, 1)
        hi == 65535 - c[1]
        lo == 65535 - c[2]
    IN  <<hi \div 256, hi % 256, lo \div 256, lo % 256>>

mycrc(name, buf, len) == crc32(crc32(<<0, 0, 0, 0>>, Take(name, 4)), Take(buf, len))

(***************************************************************************)
(* zlib's adler32(), as the guint32 that ends a zlib stream.               *)
(***************************************************************************)
RECURSIVE AdlerSums(_, _, _, _)
AdlerSums(a, b, buf, k) ==
    IF k > Len(buf) THEN <<a, b>>
    ELSE LET a2 == (a + buf[k]) % 65521
         IN  AdlerSums(a2, (b + a2) % 65521, buf, k + 1)

adler32(buf) ==
    LET s == AdlerSums(1, 0, buf, 1)
    IN  <<s[2] \div 256, s[2] % 256, s[1] \div 256, s[1] % 256>>

(***************************************************************************)
(* zlib's inflate() on a raw stream (inflateInit2 with windowBits -8): one *)
(* call with Z_NO_FLUSH, all of the input available and cap bytes of       *)
(* output space.  It stops when the input is used up, the output is full,  *)
(* the final block ends, or a block is invalid; out is what it produced    *)
(* (total_out bytes), ret what it returns.                                 *)
(***************************************************************************)
RECURSIVE InflateFrom(_, _, _, _)
InflateFrom(s, p, out, cap) ==
    IF p > Len(s) THEN [out |-> out, ret |-> "Z_OK"]
    ELSE LET bfinal == s[p] % 2
             btype == s[p] \div 2
             room == cap - Len(out)
         IN  IF btype = 0
             THEN IF p + 1 > Len(s) THEN [out |-> out, ret |-> "Z_OK"]
                  ELSE LET n == s[p + 1]
                           m == Min(Min(n, Len(s) - (p + 1)), room)
                           out2 == out \o SubSeq(s, p + 2, p + 1 + m)
                       IN  IF m < n THEN [out |-> out2, ret |-> "Z_OK"]
                           ELSE IF bfinal = 1 THEN [out |-> out2, ret |-> "Z_STREAM_END"]
                           ELSE InflateFrom(s, p + 2 + n, out2, cap)
             ELSE IF btype = 1
             THEN IF p + 2 > Len(s) THEN [out |-> out, ret |-> "Z_OK"]
                  ELSE LET n == s[p + 1]
                           m == Min(n, room)
                           out2 == out \o Repeat(s[p + 2], m)
                       IN  IF m < n THEN [out |-> out2, ret |-> "Z_OK"]
                           ELSE IF bfinal = 1 THEN [out |-> out2, ret |-> "Z_STREAM_END"]
                           ELSE InflateFrom(s, p + 3, out2, cap)
             ELSE [out |-> out, ret |-> "Z_DATA_ERROR"]

inflate(next_in, avail_out) == InflateFrom(next_in, 1, <<>>, avail_out)

(***************************************************************************)
(* zlib's deflate() after deflateInit (a zlib-wrapped stream): one call    *)
(* with Z_FINISH and cap bytes of output space.  The whole stream is the   *)
(* header, one final block and the Adler-32; when it does not fit, the     *)
(* call fills the output space and returns Z_OK.                           *)
(***************************************************************************)
DeflateBlock(data) ==
    IF Len(data) >= 4 /\ \A k \in 1..Len(data) : data[k] = data[1]
    THEN <<3, Len(data), data[1]>>
    ELSE <<1, Len(data)>> \o data

ZlibStream(data) == <<120, 156>> \o DeflateBlock(data) \o adler32(data)

deflate(next_in, avail_out) ==
    [out |-> Take(ZlibStream(next_in), avail_out),
     ret |-> IF Len(ZlibStream(next_in)) <= avail_out THEN "Z_STREAM_END" ELSE "Z_OK"]

(***************************************************************************)
(* Input files.  A record on the wire is the declared length, the type,    *)
(* the payload and the checksum, the two numbers big-endian.               *)
(***************************************************************************)
WireRecord(length, name, data, crc) == length \o name \o data \o crc

GoodRecord(name, data) ==
    WireRecord(U32Of(Len(data)), name, data, mycrc(name, data, Len(data)))

\* Raw streams carried by IDAT records: a complete stream, one that inflates
\* to more than BUFSIZE bytes, one whose zlib form is longer than BUFSIZE, one
\* with an invalid block after a valid one, and one that ends before its
\* final block (the first part of a stream split over several IDAT records).
IdatPayloads ==
    { <<1, 1, 7>>,
      <<3, BUFSIZE + 1, 9>>,
      <<1, 5, 1, 2, 3, 4, 5>>,
      <<0, 1, 7, 6>>,
      <<0, 2, 7, 8>> }

Records ==
    { GoodRecord(otherchunk, <<1>>),
      \* a stored checksum that does not match the payload
      WireRecord(U32Of(1), otherchunk, <<1>>, <<1, 2, 3, 4>>),
      \* a declared length above BUFSIZE and above what the file holds
      WireRecord(U32Of(BUFSIZE + 1), otherchunk, <<1>>, mycrc(otherchunk, <<1>>, 1)),
      GoodRecord(cgbichunk, <<>>),
      GoodRecord(endchunk, <<>>) }
    \cup { GoodRecord(datachunk, p) : p \in IdatPayloads }

RECURSIVE Flatten(_)
Flatten(ss) == IF ss = <<>> THEN <<>> ELSE Head(ss) \o Flatten(Tail(ss))

\* The well-formed records one of each kind, for the inputs that are longer
\* than read_chunks reads.
BasicRecords ==
    { GoodRecord(otherchunk, <<1>>),
      GoodRecord(cgbichunk, <<>>),
      GoodRecord(endchunk, <<>>),
      GoodRecord(datachunk, <<1, 1, 7>>) }

\* read_chunks reads at most MAX_CHUNKS + 1 records.
LongRecs == MAX_CHUNKS + 2

\* Every sequence of at most MaxRecs records, every sequence of LongRecs
\* basic records, and a file that does not start with the signature.
Files ==
    { pngheader \o Flatten(rs) : rs \in UNION { [1..n -> Records] : n \in 0..MaxRecs } }
    \cup { pngheader \o Flatten(rs) : rs \in [1..LongRecs -> BasicRecords] }
    \cup { <<137, 80, 78, 71, 13, 10, 26, 11>> \o GoodRecord(endchunk, <<>>) }

(***************************************************************************)
(* What lies in memory after the input buffer.  Reading it is undefined    *)
(* behaviour: the read faults, or it yields whatever is there.  Whatever   *)
(* is there is one of HeapChoices, fixed at the first such read; past it   *)
(* the memory is unmapped.                                                 *)
(***************************************************************************)
MaxHeap == 40

HeapChoices ==
    { Repeat(0, MaxHeap),
      <<0, 0, 0>> \o GoodRecord(endchunk, <<>>) \o Repeat(0, MaxHeap) }

VARIABLES
    file,       \* the bytes of the input file
    little,     \* whether the host is little-endian
    heap,       \* the memory after the input buffer, <<>> until it is read
    pc,         \* where main is
    pos,        \* read_chunks: buf, as an offset into the input buffer
    i,          \* read_chunks: i
    chunks,     \* the GList of png_chunk (while read_chunks runs: newest first)
    l,          \* process_chunks, write_png: l, as an index into chunks
    did_idat,   \* write_png: did_idat
    out,        \* the bytes written to fd
    parsed,     \* history: chunks as read_chunks returned it
    replaced,   \* history: how often process_chunks replaced each chunk's fields
    processed   \* history: chunks as write_png was called with it

vars == <<file, little, heap, pc, pos, i, chunks, l, did_idat, out, parsed, replaced, processed>>

Init ==
    /\ file \in Files
    /\ little \in BOOLEAN
    /\ heap = <<>>
    /\ pc = "main"
    /\ pos = 0
    /\ i = 0
    /\ chunks = <<>>
    /\ l = 0
    /\ did_idat = 0
    /\ out = <<>>
    /\ parsed = <<>>
    /\ replaced = <<>>
    /\ processed = <<>>

(***************************************************************************)
(* main and check_png_header.                                              *)
(***************************************************************************)
check_png_header(buf) == SubSeq(buf, 1, 8) = pngheader

Main ==
    /\ pc = "main"
    /\ IF check_png_header(file)
       THEN pc' = "read" /\ pos' = 8
       ELSE pc' = "exit1" /\ pos' = pos
    /\ UNCHANGED <<file, little, heap, i, chunks, l, did_idat, out, parsed, replaced, processed>>

(***************************************************************************)
(* read_chunks.  The buffer g_file_get_contents returns is the file's      *)
(* bytes and a terminating zero byte.                                      *)
(***************************************************************************)
Buffer == file \o <<0>>

\* The length field of the record at offset p of memory m.
LengthAt(m, p) == ntohl(LoadU32(SubSeq(m, p + 1, p + 4), little), little)

\* Whether the record at offset p lies within m.
Readable(m, p) ==
    /\ p + 4 <= Len(m)
    /\ ~IsHuge(LengthAt(m, p))
    /\ p + 12 + NatOf(LengthAt(m, p)) <= Len(m)

\* The png_chunk that one iteration of the loop fills from offset p of m.
ChunkAt(m, p) ==
    LET n == NatOf(LengthAt(m, p))
    IN  [length |-> LengthAt(m, p),
         name |-> SubSeq(m, p + 5, p + 8),
         data |-> SubSeq(m, p + 9, p + 8 + n),
         crc |-> ntohl(LoadU32(SubSeq(m, p + 9 + n, p + 12 + n), little), little)]

\* A reader that does not look for the end chunk.
ReaderStops_Never(chunk) == FALSE

ReaderStops(chunk) == chunk.name = endchunk

ReaderContinues(n) == n < MAX_CHUNKS

ReaderResult(list) == Reverse(list)

\* The rest of an iteration once the chunk is filled: prepend it, then leave
\* the loop (and return the reversed list) or go on.
Append1(chunk) ==
    /\ pos' = pos + 12 + NatOf(chunk.length)
    /\ IF ReaderStops(chunk)
       THEN /\ i' = i
            /\ chunks' = ReaderResult(<<chunk>> \o chunks)
            /\ pc' = "process"
       ELSE /\ i' = i + 1
            /\ IF ReaderContinues(i)
               THEN chunks' = <<chunk>> \o chunks /\ pc' = "read"
               ELSE chunks' = ReaderResult(<<chunk>> \o chunks) /\ pc' = "process"
    /\ IF pc' = "process"
       THEN /\ parsed' = chunks'
            /\ replaced' = [k \in 1..Len(chunks') |-> 0]
            /\ l' = 1
       ELSE UNCHANGED <<parsed, replaced, l>>

ReadChunk ==
    /\ pc = "read"
    /\ Readable(Buffer, pos)
    /\ Append1(ChunkAt(Buffer, pos))
    /\ UNCHANGED <<file, little, heap, did_idat, out, processed>>

\* The record reaches past the buffer and the memory there can be read.
ReadChunkBeyond ==
    /\ pc = "read"
    /\ ~Readable(Buffer, pos)
    /\ \E h \in (IF heap = <<>> THEN HeapChoices ELSE {heap}) :
          /\ Readable(Buffer \o h, pos)
          /\ heap' = h
          /\ Append1(ChunkAt(Buffer \o h, pos))
    /\ UNCHANGED <<file, little, did_idat, out, processed>>

\* The record reaches past the buffer and the read faults.
ReadChunkFault ==
    /\ pc = "read"
    /\ ~Readable(Buffer, pos)
    /\ pc' = "crashed"
    /\ UNCHANGED <<file, little, heap, pos, i, chunks, l, did_idat, out, parsed, replaced, processed>>

(***************************************************************************)
(* process_chunks: one iteration of its loop per step.                     *)
(***************************************************************************)
ProcessStops(chunk) == chunk.name = endchunk

\* A recompressor that takes every chunk for an IDAT chunk.
ProcessSkips_Never(chunk) == FALSE

ProcessSkips(chunk) == chunk.name # datachunk

\* A recompressor that leaves the checksum of the old payload.
Recompress_StaleCrc(chunk) ==
    LET inf == inflate(Take(chunk.data, NatOf(chunk.length)), BUFSIZE)
        def == deflate(inf.out, BUFSIZE)
    IN  [length |-> U32Of(Len(def.out)),
         name |-> chunk.name,
         data |-> def.out,
         crc |-> chunk.crc]

\* The chunk after its payload was inflated (raw) and deflated again (zlib).
\* inflate's return value only selects what is printed.
Recompress(chunk) ==
    LET inf == inflate(Take(chunk.data, NatOf(chunk.length)), BUFSIZE)
        def == deflate(inf.out, BUFSIZE)
    IN  [length |-> U32Of(Len(def.out)),
         name |-> chunk.name,
         data |-> def.out,
         crc |-> mycrc(chunk.name, def.out, Len(def.out))]

ProcessReturn ==
    /\ pc = "process"
    /\ IF l <= Len(chunks) THEN ProcessStops(chunks[l]) ELSE TRUE
    /\ pc' = "write_png"
    /\ processed' = chunks
    /\ UNCHANGED <<file, little, heap, pos, i, chunks, l, did_idat, out, parsed, replaced>>

ProcessOther ==
    /\ pc = "process"
    /\ l <= Len(chunks)
    /\ ~ProcessStops(chunks[l])
    /\ ProcessSkips(chunks[l])
    /\ l' = l + 1
    /\ UNCHANGED <<file, little, heap, pc, pos, i, chunks, did_idat, out, parsed, replaced, processed>>

ProcessIDAT ==
    /\ pc = "process"
    /\ l <= Len(chunks)
    /\ ~ProcessStops(chunks[l])
    /\ ~ProcessSkips(chunks[l])
    /\ chunks' = [chunks EXCEPT ![l] = Recompress(chunks[l])]
    /\ replaced' = [replaced EXCEPT ![l] = @ + 1]
    /\ l' = l + 1
    /\ UNCHANGED <<file, little, heap, pc, pos, i, did_idat, out, parsed, processed>>

\* inflateInit2 does not return Z_OK (it could not allocate): die().
ProcessDie ==
    /\ pc = "process"
    /\ l <= Len(chunks)
    /\ ~ProcessStops(chunks[l])
    /\ ~ProcessSkips(chunks[l])
    /\ pc' = "exit1"
    /\ UNCHANGED <<file, little, heap, pos, i, chunks, l, did_idat, out, parsed, replaced, processed>>

(***************************************************************************)
(* write_png: the open and the signature, then one iteration of the loop   *)
(* per step.                                                               *)
(***************************************************************************)
WriteOpen ==
    /\ pc = "write_png"
    /\ out' = pngheader
    /\ did_idat' = 0
    /\ l' = 1
    /\ pc' = "write"
    /\ UNCHANGED <<file, little, heap, pos, i, chunks, parsed, replaced, processed>>

\* A writer with the sense of the memcmp test inverted.
IsVendor_Inverted(chunk) == chunk.name # cgbichunk

IsVendor(chunk) == chunk.name = cgbichunk

\* A writer that never skips an IDAT chunk.
SkipDuplicate_Never(chunk, did) == FALSE

SkipDuplicate(chunk, did) == chunk.name = datachunk /\ did = 1

WriterStops(chunk) == chunk.name = endchunk

\* The crc field once the loop body has converted it in place.
WriterCrc(crc) == htonl(crc, little)

\* The four writes of one record; chunk.crc is already converted.
WriteRecord(chunk) ==
    StoreU32(htonl(chunk.length, little), little)
    \o chunk.name
    \o (IF chunk.length # <<0, 0, 0, 0>> THEN Take(chunk.data, NatOf(chunk.length)) ELSE <<>>)
    \o StoreU32(chunk.crc, little)

WriteChunk ==
    /\ pc = "write"
    /\ l <= Len(chunks)
    /\ LET chunk == [chunks[l] EXCEPT !.crc = WriterCrc(@)]
       IN  /\ chunks' = [chunks EXCEPT ![l] = chunk]
           /\ IF IsVendor(chunk)
              THEN UNCHANGED <<out, did_idat>> /\ l' = l + 1 /\ pc' = pc
              ELSE IF SkipDuplicate(chunk, did_idat)
              THEN UNCHANGED <<out, did_idat>> /\ l' = l + 1 /\ pc' = pc
              ELSE /\ did_idat' = (IF chunk.name = datachunk THEN 1 ELSE did_idat)
                   /\ out' = out \o WriteRecord(chunk)
                   /\ IF WriterStops(chunk)
                      THEN l' = l /\ pc' = "done"
                      ELSE l' = l + 1 /\ pc' = pc
    /\ UNCHANGED <<file, little, heap, pos, i, parsed, replaced, processed>>

\* The list is exhausted: close(fd), return to main, exit.
WriteReturn ==
    /\ pc = "write"
    /\ l > Len(chunks)
    /\ pc' = "done"
    /\ UNCHANGED <<file, little, heap, pos, i, chunks, l, did_idat, out, parsed, replaced, processed>>

Next ==
    \/ Main
    \/ ReadChunk
    \/ ReadChunkBeyond
    \/ ReadChunkFault
    \/ ProcessReturn
    \/ ProcessOther
    \/ ProcessIDAT
    \/ ProcessDie
    \/ WriteOpen
    \/ WriteChunk
    \/ WriteReturn

Spec == Init /\ [][Next]_vars

(***************************************************************************)
(* What a conforming PNG reader sees in a byte stream after the signature: *)
(* the records that are there, each with its four fields, the two numbers  *)
(* as they are on the wire (big-endian).                                   *)
(***************************************************************************)
RECURSIVE ParseWire(_)
ParseWire(b) ==
    IF Len(b) < 12 \/ IsHuge(SubSeq(b, 1, 4)) THEN <<>>
    ELSE LET n == NatOf(SubSeq(b, 1, 4))
         IN  IF Len(b) < 12 + n THEN <<>>
             ELSE <<[length |-> SubSeq(b, 1, 4),
                     name |-> SubSeq(b, 5, 8),
                     data |-> SubSeq(b, 9, 8 + n),
                     crc |-> SubSeq(b, 9 + n, 12 + n)]>>
                  \o ParseWire(Drop(b, 12 + n))

RECURSIVE WireLength(_)
WireLength(rs) == IF rs = <<>> THEN 0 ELSE 12 + Len(Head(rs).data) + WireLength(Tail(rs))

\* The records of the input file and of the output written so far.
InRecords == ParseWire(Drop(file, 8))

OutRecords == ParseWire(Drop(out, 8))

\* The output is the signature and whole records, nothing else.
OutFramed ==
    out # <<>> => Take(out, 8) = pngheader /\ Len(out) = 8 + WireLength(OutRecords)

Indices(rs, tag) == { k \in 1..Len(rs) : rs[k].name = tag }

\* The index of the first record of rs with the tag, 0 when there is none.
First(rs, tag) ==
    IF Indices(rs, tag) = {} THEN 0
    ELSE CHOOSE k \in Indices(rs, tag) : \A j \in Indices(rs, tag) : k <= j

\* read_chunks has returned.
Returned == pc \in {"process", "write_png", "write", "done"}

(***************************************************************************)
(* C1.  Vendor chunk removal: whatever write_png has written is the        *)
(* signature followed by whole records, and none of these records has the  *)
(* type CgBI, wherever the CgBI chunks are in the sequence and however     *)
(* many there are.                                                         *)
(***************************************************************************)
C1_NoVendorRecord ==
    /\ OutFramed
    /\ Indices(OutRecords, cgbichunk) = {}

\* A finished run whose sequence held two CgBI chunks, the later one after
\* another chunk, and whose output holds a record.
C1_Witness ==
    /\ pc = "done"
    /\ Cardinality(Indices(chunks, cgbichunk)) >= 2
    /\ \E k \in Indices(chunks, cgbichunk) : k > 1 /\ chunks[k - 1].name # cgbichunk
    /\ Len(OutRecords) >= 1

Consistent(r) == r.crc = mycrc(r.name, r.data, Len(r.data))

C3_Original == \A k \in 1..Len(OutRecords) : Consistent(OutRecords[k])

\* C3 as amended: the checksum of every IDAT record written is the CRC-32 of
\* its type and its written payload; every other record written has the
\* length, type, payload and checksum read_chunks stored for a chunk of the
\* input, so its checksum matches exactly when the stored one did.
C3_ConsistentOrAsRead ==
    \A k \in 1..Len(OutRecords) :
        IF OutRecords[k].name = datachunk
        THEN Consistent(OutRecords[k])
        ELSE \E j \in 1..Len(parsed) : OutRecords[k] = parsed[j]

\* A finished run that wrote an IDAT record and a record whose stored
\* checksum does not match.
C3_Witness ==
    /\ pc = "done"
    /\ Indices(OutRecords, datachunk) # {}
    /\ \E k \in 1..Len(OutRecords) :
          OutRecords[k].name # datachunk /\ ~Consistent(OutRecords[k])

(***************************************************************************)
(* C4.  Termination at end-of-image: an IEND record in the output is its   *)
(* last record and once it is written the output never changes; an IEND    *)
(* chunk is the last chunk of the sequence read_chunks builds, and         *)
(* read_chunks never reads past the first IEND record of the input.        *)
(***************************************************************************)
EndWritten == Indices(OutRecords, endchunk) # {}

C4_StopsAtEnd ==
    /\ [](/\ OutFramed
          /\ Indices(OutRecords, endchunk) \subseteq {Len(OutRecords)}
          /\ Indices(chunks, endchunk) \subseteq (IF pc = "read" THEN {} ELSE {Len(chunks)})
          /\ First(InRecords, endchunk) # 0 =>
                /\ Len(chunks) <= First(InRecords, endchunk)
                /\ pos <= 8 + WireLength(SubSeq(InRecords, 1, First(InRecords, endchunk))))
    /\ [][EndWritten => out' = out]_vars

\* A finished run that wrote IEND although the input goes on after its first
\* IEND record.
C4_Witness ==
    /\ pc = "done"
    /\ EndWritten
    /\ First(InRecords, endchunk) # 0
    /\ First(InRecords, endchunk) < Len(InRecords)

(***************************************************************************)
(* C5.  Reader termination guarantee, as claimed: the sequence read_chunks *)
(* returns ends with an IEND chunk (it fails instead of returning a        *)
(* sequence without one), here for the runs in which it read nothing       *)
(* beyond the input buffer.                                                *)
(***************************************************************************)
C5_Claim ==
    Returned /\ heap = <<>> => parsed # <<>> /\ parsed[Len(parsed)].name = endchunk

(***************************************************************************)
(* C6.  Bound violation, as claimed: when the record at the read position  *)
(* declares a length above BUFSIZE or above the input bytes that remain,   *)
(* read_chunks fails (the program exits with an error) and reads nothing   *)
(* beyond the input buffer.                                                *)
(***************************************************************************)
DeclaresTooMuch ==
    /\ pc = "read"
    /\ pos + 4 <= Len(file)
    /\ \/ IsHuge(LengthAt(file, pos))
       \/ NatOf(LengthAt(file, pos)) > BUFSIZE
       \/ pos + 12 + NatOf(LengthAt(file, pos)) > Len(file)

C6_Claim == [][DeclaresTooMuch => pc' = "exit1" /\ heap' = <<>>]_vars

(***************************************************************************)
(* C7.  Recompressor frame: process_chunks replaces the fields of each     *)
(* IDAT chunk before the first IEND exactly once and of no other chunk;    *)
(* every other chunk keeps its length, type, data and checksum, and the    *)
(* number of chunks, their order and their types are unchanged.            *)
(***************************************************************************)
\* The chunks process_chunks is to replace: IDAT, before the first IEND.
Target(k) ==
    /\ parsed[k].name = datachunk
    /\ \A j \in 1..k : parsed[j].name # endchunk

FrameUpTo(cs, n) ==
    /\ Len(cs) = Len(parsed)
    /\ \A k \in 1..Len(cs) :
          /\ cs[k].name = parsed[k].name
          /\ replaced[k] = (IF k <= n /\ Target(k) THEN 1 ELSE 0)
          /\ replaced[k] = 0 => cs[k] = parsed[k]

C7_RecompressorFrame ==
    /\ pc = "process" => FrameUpTo(chunks, l - 1)
    /\ pc \in {"write_png", "write", "done"} => FrameUpTo(processed, Len(processed))

\* process_chunks returned after replacing an IDAT chunk and passing over
\* another chunk, having stopped at the IEND.
C7_Witness ==
    /\ pc = "write_png"
    /\ \E k \in 1..Len(processed) : replaced[k] = 1 /\ processed[k] # parsed[k]
    /\ \E k \in 1..Len(processed) : processed[k].name \notin {datachunk, endchunk}
    /\ Indices(processed, endchunk) # {}

(***************************************************************************)
(* C8.  Decompression-recompression equivalence, as claimed: a standard    *)
(* zlib inflate of the IDAT payload in the output yields the bytes that a  *)
(* raw inflate of the corresponding input payload yields (the first IDAT   *)
(* chunk read is the one carried to the output).                           *)
(***************************************************************************)
\* Output space no stream of the model fills.
NoLimit == 100 * BUFSIZE

\* The bytes a zlib inflate produces: the header, then the raw stream.
ZlibInflateBytes(s) ==
    IF Len(s) >= 2 /\ s[1] = 120 /\ s[2] = 156
    THEN inflate(Drop(s, 2), NoLimit).out
    ELSE <<>>

C8_Claim ==
    pc = "done" /\ Indices(parsed, datachunk) # {} /\ Indices(OutRecords, datachunk) # {}
        => ZlibInflateBytes(OutRecords[First(OutRecords, datachunk)].data)
             = inflate(parsed[First(parsed, datachunk)].data, NoLimit).out

(***************************************************************************)
(* C9.  Round trip, as claimed: for an input that is whole records up to   *)
(* an IEND and has no CgBI record, the records of the output other than    *)
(* IDAT are, in order and field for field, the records of the input other  *)
(* than IDAT up to and including the first IEND.                           *)
(***************************************************************************)
RECURSIVE Without(_, _)
Without(rs, tag) ==
    IF rs = <<>> THEN <<>>
    ELSE IF Head(rs).name = tag THEN Without(Tail(rs), tag)
    ELSE <<Head(rs)>> \o Without(Tail(rs), tag)

C9_Claim ==
    pc = "done" /\ First(InRecords, endchunk) # 0 /\ Indices(InRecords, cgbichunk) = {}
        => Without(OutRecords, datachunk)
             = Without(SubSeq(InRecords, 1, First(InRecords, endchunk)), datachunk)

(***************************************************************************)
(* C10.  Writer is read-only, as claimed: while write_png runs and after   *)
(* it returns, every chunk has the field values it had when write_png was  *)
(* called.                                                                 *)
(***************************************************************************)
C10_Claim == pc \in {"write", "done"} => chunks = processed

=============================================================================
